---------------------------- MODULE Spec2Model ----------------------------
(***************************************************************************)
(* Speleo (src/Speleo/src/main.cpp): site percolation on an N x N cave.    *)
(* Mode A traverses a map read from the console and displays the paths,    *)
(* mode B estimates the crossing probability over sample_size generated    *)
(* maps, mode C runs mode B for accessibility = 0.0, += 0.01, while <= 1.0.*)
(*                                                                         *)
(* Rows and columns are 0-based in the source; a TLA+ sequence is 1-based, *)
(* so the Region at cave[y][x] is map[y+1][x+1].  Each Region keeps its    *)
(* own y and x fields, 0-based as in the source.                           *)
(***************************************************************************)
EXTENDS Integers, Sequences, FiniteSets, TLC

\* ------------------------------------------------------------------------
\* Bounds of the model.
\* ------------------------------------------------------------------------

\* Largest cave size entered in mode A.
MaxSizeA == 3

\* Largest cave size entered in mode B.
MaxSizeB == 2

\* Largest cave size entered in mode C.
MaxSizeC == 1

\* Largest sample size entered in modes B and C.
MaxSamples == 2

\* ------------------------------------------------------------------------
\* double: the values the program computes with are 0.0, 0.5, 1.0 and the
\* sums 0.0 + 0.01 + 0.01 + ..., all in [0, 2) and all multiples of 2^-59
\* (0.01 is 0x1.47ae147ae147bp-7 = 0x147AE147AE147B * 2^-59).  A double d is
\* the record [hi, lo] with d = (hi * 2^30 + lo) * 2^-59, both limbs below
\* 2^30.  An exact sum or difference is rounded to 53 significant bits, ties
\* to even, as IEEE 754 binary64 does.
\* ------------------------------------------------------------------------

RECURSIVE Pow2(_)
Pow2(n) == IF n = 0 THEN 1 ELSE 2 * Pow2(n - 1)

Limb == Pow2(30)

RECURSIVE BitLen(_)
BitLen(n) == IF n = 0 THEN 0 ELSE 1 + BitLen(n \div 2)

DblZero == [hi |-> 0, lo |-> 0]

DblHalf == [hi |-> Limb \div 4, lo |-> 0]

DblOne == [hi |-> Limb \div 2, lo |-> 0]

\* 0.01 = 5764607523034235 * 2^-59 = (5368709 * 2^30 + 128849019) * 2^-59
DblStep == [hi |-> 5368709, lo |-> 128849019]

\* Round the exact value (hi * 2^30 + lo) * 2^-59 to a double: with more
\* than 53 significant bits, the low s bits are dropped, to nearest, ties
\* to even.  s <= 7 here, so the dropped bits are all in lo.
DblRound(hi, lo) ==
  LET s    == BitLen(hi) + 30 - 53
      unit == Pow2(s)
      rem  == lo % unit
      base == lo - rem
      up   == \/ 2 * rem > unit
              \/ 2 * rem = unit /\ (lo \div unit) % 2 = 1
      lo2  == IF up THEN base + unit ELSE base
  IN  IF s <= 0 THEN [hi |-> hi, lo |-> lo]
      ELSE IF lo2 = Limb THEN [hi |-> hi + 1, lo |-> 0]
      ELSE [hi |-> hi, lo |-> lo2]

\* a + b
DblAdd(a, b) ==
  LET lo == a.lo + b.lo
      c  == lo \div Limb
  IN  DblRound(a.hi + b.hi + c, lo % Limb)

\* a - b, for a >= b
DblSub(a, b) ==
  LET borrow == IF a.lo < b.lo THEN 1 ELSE 0
  IN  DblRound(a.hi - b.hi - borrow, a.lo + borrow * Limb - b.lo)

\* a <= b
DblLeq(a, b) == a.hi < b.hi \/ (a.hi = b.hi /\ a.lo <= b.lo)

\* ------------------------------------------------------------------------
\* Bernouilli(p): std::bernoulli_distribution draws true with probability p:
\* never for p = 0, always for p = 1, either outcome otherwise.
\* ------------------------------------------------------------------------
\* Bernouilli drawing either outcome whatever p is.
BernouilliFair(p) == BOOLEAN

Bernouilli(p) ==
  IF p = DblZero THEN {FALSE}
  ELSE IF p = DblOne THEN {TRUE}
  ELSE BOOLEAN

\* ------------------------------------------------------------------------
\* Region and Map
\* ------------------------------------------------------------------------

\* Region(y, x, obstructed): discovered starts false.
Region(y, x, obstructed) ==
  [y |-> y, x |-> x, obstructed |-> obstructed, discovered |-> FALSE]

IsAccessible(region) == ~region.obstructed

IsUnknown(region) == ~region.discovered

\* The size x size rows built by the two nested loops of ReadMapFromConsole
\* and GenerateMap from the obstruction flags obs[y][x] (0-based).
Strips(size, obs) ==
  [y1 \in 1..size |-> [x1 \in 1..size |-> Region(y1 - 1, x1 - 1, obs[y1 - 1][x1 - 1])]]

\* All choices of size x size obstruction flags, each flag from flags.
Obstructions(size, flags) == [0..(size - 1) -> [0..(size - 1) -> flags]]


\* ------------------------------------------------------------------------
\* State
\* ------------------------------------------------------------------------
VARIABLES
  exec_mode,            \* Speleo::exec_mode: "A", "B" or "C"
  sample_size,          \* Speleo::sample_size
  accessibility,        \* Speleo::accessibility, a double
  cave,                 \* Speleo::cave: [map |-> rows of Regions, size |-> N]
  successful_attempts,  \* Speleo::successful_attempts
  regions_to_scout,     \* the stack of AttemptCaveTraverse, top last
  entry,                \* position of the range-for over cave[ENTRY], 1-based
  sample,               \* loop variable of Run's case B
  sweeping,             \* TRUE while the case C frame of Run is on the call stack
  pc,                   \* where the program is
  console,              \* what was printed: the exit message, the paths, the rate
  events,               \* pushes and pops of the current traversal, in order
  attempts_before,      \* successful_attempts when the current traversal began
  generated,            \* the rows the last GenerateMap call built
  reads,                \* the <<y, x>> of every cave[y][x] the current traversal accessed
  points                \* calls of Run made by the loop of case C, with the last accessibility

vars == <<exec_mode, sample_size, accessibility, cave, successful_attempts,
          regions_to_scout, entry, sample, sweeping, pc, console, events,
          attempts_before, generated, reads, points>>

ENTRY == 0

NoConsole == [exit |-> "", paths |-> <<>>, rate |-> <<>>]

NoPoints == [calls |-> 0, first |-> DblZero, last |-> DblZero]

\* Speleo::Speleo(): the values prompt_user::BoundedValue accepts.  Mode A
\* reads the map; modes B and C leave cave.map empty.  A member the
\* constructor leaves unset is never read before Run assigns it; it starts
\* at zero here.
InitA ==
  /\ exec_mode = "A"
  /\ \E size \in 1..MaxSizeA : \E obs \in Obstructions(size, BOOLEAN) :
        cave = [map |-> Strips(size, obs), size |-> size]
  /\ sample_size = 0
  /\ accessibility = DblZero

InitB ==
  /\ exec_mode = "B"
  /\ \E size \in 1..MaxSizeB : cave = [map |-> <<>>, size |-> size]
  /\ accessibility \in {DblZero, DblHalf, DblOne}
  /\ sample_size \in 1..MaxSamples

InitC ==
  /\ exec_mode = "C"
  /\ \E size \in 1..MaxSizeC : cave = [map |-> <<>>, size |-> size]
  /\ accessibility = DblZero
  /\ sample_size \in 1..MaxSamples

Init ==
  /\ (InitA \/ InitB \/ InitC)
  /\ successful_attempts = 0
  /\ regions_to_scout = <<>>
  /\ entry = 1
  /\ sample = 0
  /\ sweeping = FALSE
  /\ pc = "Run"
  /\ console = NoConsole
  /\ events = <<>>
  /\ attempts_before = 0
  /\ generated = <<>>
  /\ reads = {}
  /\ points = NoPoints

\* ------------------------------------------------------------------------
\* GenerateMap and ResetMap
\* ------------------------------------------------------------------------

\* GenerateMap passing accessibility itself to Bernouilli.
ObstructionProbabilitySwapped(p) == p

\* The argument of Bernouilli in GenerateMap.
ObstructionProbability(p) == DblSub(DblOne, p)

\* The rows one GenerateMap call can build.
GeneratedStrips(size, p) ==
  { Strips(size, obs) : obs \in Obstructions(size, Bernouilli(ObstructionProbability(p))) }

\* ResetMap leaving the rows in place.
ResetMapKeeps(map) == map

\* cave.map after ResetMap.
ResetMap(map) == <<>>

\* ------------------------------------------------------------------------
\* AttemptCaveTraverse
\* ------------------------------------------------------------------------

Top(stack) == stack[Len(stack)]

Pop(stack) == SubSeq(stack, 1, Len(stack) - 1)

Event(op, region) == [op |-> op, y |-> region.y, x |-> region.x]

\* ScoutRegion without the IsAccessible test.
ToScoutObstructed(region) == IsUnknown(region)

\* The condition of the ScoutRegion lambda.
ToScout(region) == IsAccessible(region) /\ IsUnknown(region)

\* ScoutRegion without "region.discovered = true": the copy pushed is
\* marked, cave.map is not.
ScoutRegionUnmarked(st, y, x) ==
  LET region == st.map[y + 1][x + 1]
  IN  IF ToScout(region)
      THEN [st EXCEPT !.stack  = Append(st.stack, [region EXCEPT !.discovered = TRUE]),
                      !.events = Append(st.events, Event("push", region)),
                      !.reads  = st.reads \cup {<<y, x>>}]
      ELSE [st EXCEPT !.reads = st.reads \cup {<<y, x>>}]

\* ScoutRegion with "region.discovered = true" outside the if: every
\* region scouted is marked, those that pass the test are pushed.
ScoutRegionMarksAlways(st, y, x) ==
  LET region == st.map[y + 1][x + 1]
      marked == [region EXCEPT !.discovered = TRUE]
      seen   == [st EXCEPT !.map[y + 1][x + 1] = marked,
                           !.reads = st.reads \cup {<<y, x>>}]
  IN  IF ToScout(region)
      THEN [seen EXCEPT !.stack  = Append(st.stack, marked),
                        !.events = Append(st.events, Event("push", marked))]
      ELSE seen

\* cave[y][x] is an element of cave.map.
InMap(map, y, x) == y + 1 \in DOMAIN map /\ x + 1 \in DOMAIN map[y + 1]

\* A traversal state: the canonical map, the stack, the event log and the
\* accesses.
\* ScoutRegion(cave[y][x]): the lambda takes Region&, so the discovered
\* flag is set in cave.map and a copy of the marked Region is pushed.  The
\* callers' guards keep y and x inside the map; cave[y][x] outside it is
\* undefined behaviour, which is recorded in reads and given no effect.
ScoutRegion(st, y, x) ==
  LET read   == [st EXCEPT !.reads = st.reads \cup {<<y, x>>}]
      region == st.map[y + 1][x + 1]
      marked == [region EXCEPT !.discovered = TRUE]
  IN  IF ~InMap(st.map, y, x) THEN read
      ELSE IF ToScout(region)
      THEN [map    |-> [st.map EXCEPT ![y + 1][x + 1] = marked],
            stack  |-> Append(st.stack, marked),
            events |-> Append(st.events, Event("push", marked)),
            reads  |-> read.reads]
      ELSE read

\* ScoutRegion(region) in "for(auto region : cave[ENTRY])": region is a copy
\* of the element, so the flag is set in the copy and cave.map is not changed.
ScoutEntry(st, x) ==
  LET region == st.map[ENTRY + 1][x + 1]
      marked == [region EXCEPT !.discovered = TRUE]
      read   == [st EXCEPT !.reads = st.reads \cup {<<ENTRY, x>>}]
  IN  IF ToScout(region)
      THEN [map    |-> st.map,
            stack  |-> Append(st.stack, marked),
            events |-> Append(st.events, Event("push", marked)),
            reads  |-> read.reads]
      ELSE read

\* The four guarded calls after the pop, in the order NORTH, EAST, WEST, SOUTH.
ScoutNorth(st, y, x, size) == IF y - 1 >= 0 THEN ScoutRegion(st, y - 1, x) ELSE st

\* The EAST guard off by one: "x+1 <= cave.size".
ScoutEastOffByOne(st, y, x, size) == IF x + 1 <= size THEN ScoutRegion(st, y, x + 1) ELSE st

ScoutEast(st, y, x, size) == IF x + 1 < size THEN ScoutRegion(st, y, x + 1) ELSE st

\* The traversal without its WEST call.
ScoutWestSkipped(st, y, x, size) == st

ScoutWest(st, y, x, size) == IF x - 1 >= 0 THEN ScoutRegion(st, y, x - 1) ELSE st

ScoutSouth(st, y, x, size) == IF y + 1 < size THEN ScoutRegion(st, y + 1, x) ELSE st

\* The four calls in the order SOUTH, WEST, EAST, NORTH.
ScoutAroundReversed(st, y, x, size) ==
  ScoutNorth(ScoutEast(ScoutWest(ScoutSouth(st, y, x, size), y, x, size), y, x, size), y, x, size)

ScoutAround(st, y, x, size) ==
  ScoutSouth(ScoutWest(ScoutEast(ScoutNorth(st, y, x, size), y, x, size), y, x, size), y, x, size)

\* The traversal without the break at the exit.
StopsAtExitNever(mode) == FALSE

\* The break at the exit taken in mode A too.
StopsAtExitAlways(mode) == TRUE

\* "if(exec_mode != A) break;"
StopsAtExit(mode) == mode # "A"

\* "accessibility <= 1.0", the condition of the loop of case C.
SweepContinues(p) == DblLeq(p, DblOne)

\* DisplayPaths: one row of !discovered per strip.
DisplayPaths(map) ==
  [y1 \in 1..Len(map) |-> [x1 \in 1..Len(map[y1]) |-> IF map[y1][x1].discovered THEN 0 ELSE 1]]

State == [map |-> cave.map, stack |-> regions_to_scout, events |-> events, reads |-> reads]

\* The iteration with "successful_attempts += 1" after the break: a
\* traversal that stops at the exit does not count it.
ExploreStepBreaksFirst(st, attempts, mode, size) ==
  LET region == Top(st.stack)
      y      == region.y
      x      == region.x
      exit   == y + 1 = size
      stop   == exit /\ StopsAtExit(mode)
      popped == [st EXCEPT !.stack  = Pop(st.stack),
                           !.events = Append(st.events, Event("pop", region))]
  IN  [attempts |-> IF exit /\ ~stop THEN attempts + 1 ELSE attempts,
       stop     |-> stop,
       st       |-> IF stop THEN st ELSE ScoutAround(popped, y, x, size)]

\* One iteration of "while(!regions_to_scout.empty())" on a non-empty
\* stack: the region on top, the exit test and the count, the break of
\* modes B and C, and otherwise the pop and the four ScoutRegion calls.
ExploreStep(st, attempts, mode, size) ==
  LET region == Top(st.stack)
      y      == region.y
      x      == region.x
      exit   == y + 1 = size
      stop   == exit /\ StopsAtExit(mode)
      popped == [st EXCEPT !.stack  = Pop(st.stack),
                           !.events = Append(st.events, Event("pop", region))]
  IN  [attempts |-> IF exit THEN attempts + 1 ELSE attempts,
       stop     |-> stop,
       st       |-> IF stop THEN st ELSE ScoutAround(popped, y, x, size)]

\* "for(auto region : cave[ENTRY]) ScoutRegion(region);" from column x on.
RECURSIVE FindEntries(_, _)
FindEntries(st, x) ==
  IF x >= Len(st.map[ENTRY + 1]) THEN st ELSE FindEntries(ScoutEntry(st, x), x + 1)

\* "while(!regions_to_scout.empty()) { ... }" run to its end.
RECURSIVE ExploreAll(_, _, _, _)
ExploreAll(st, attempts, mode, size) ==
  IF st.stack = <<>> THEN [st |-> st, attempts |-> attempts]
  ELSE LET step == ExploreStep(st, attempts, mode, size)
       IN  IF step.stop THEN [st |-> step.st, attempts |-> step.attempts]
           ELSE ExploreAll(step.st, step.attempts, mode, size)

\* AttemptCaveTraverse as a function of the map, the counter and the mode:
\* the traversal state and the counter it returns with.
AttemptCaveTraverse(map, attempts, mode, size) ==
  ExploreAll(FindEntries([map |-> map, stack |-> <<>>, events |-> <<>>, reads |-> {}], 0),
             attempts, mode, size)

\* ------------------------------------------------------------------------
\* Actions
\* ------------------------------------------------------------------------

\* Run without "successful_attempts = 0".
RunEnterKeepsCount ==
  /\ pc = "Run"
  /\ UNCHANGED successful_attempts
  /\ \/ /\ exec_mode = "A"
        /\ pc' = "Traverse"
        /\ UNCHANGED <<exec_mode, accessibility, sample, sweeping>>
     \/ /\ exec_mode = "B"
        /\ sample' = 0
        /\ pc' = "SampleLoop"
        /\ UNCHANGED <<exec_mode, accessibility, sweeping>>
     \/ /\ exec_mode = "C"
        /\ accessibility' = DblZero
        /\ exec_mode' = "B"
        /\ sweeping' = TRUE
        /\ pc' = "SweepLoop"
        /\ UNCHANGED sample
  /\ UNCHANGED <<sample_size, cave, regions_to_scout, entry, console, events,
                 attempts_before, generated, points, reads>>

\* Run: "successful_attempts = 0; switch(exec_mode)".  Case A calls
\* AttemptCaveTraverse, case B enters its sample loop, case C sets
\* accessibility = 0.0 and exec_mode = B and enters its loop.
RunEnter ==
  /\ pc = "Run"
  /\ successful_attempts' = 0
  /\ \/ /\ exec_mode = "A"
        /\ pc' = "Traverse"
        /\ UNCHANGED <<exec_mode, accessibility, sample, sweeping>>
     \/ /\ exec_mode = "B"
        /\ sample' = 0
        /\ pc' = "SampleLoop"
        /\ UNCHANGED <<exec_mode, accessibility, sweeping>>
     \/ /\ exec_mode = "C"
        /\ accessibility' = DblZero
        /\ exec_mode' = "B"
        /\ sweeping' = TRUE
        /\ pc' = "SweepLoop"
        /\ UNCHANGED sample
  /\ UNCHANGED <<sample_size, cave, regions_to_scout, entry, console, events,
                 attempts_before, generated, points, reads>>

\* The loop of case C: while accessibility <= 1.0, call Run.
SweepLoop ==
  /\ pc = "SweepLoop"
  /\ IF SweepContinues(accessibility)
     THEN /\ pc' = "Run"
          /\ points' = [calls |-> points.calls + 1,
                        first |-> IF points.calls = 0 THEN accessibility ELSE points.first,
                        last  |-> accessibility]
          /\ UNCHANGED sweeping
     ELSE /\ pc' = "Done"
          /\ sweeping' = FALSE
          /\ UNCHANGED points
  /\ UNCHANGED <<exec_mode, sample_size, accessibility, cave, successful_attempts,
                 regions_to_scout, entry, sample, console, events, attempts_before,
                 generated, reads>>

\* The loop of case B: GenerateMap while sample < sample_size.
GenerateMap ==
  /\ pc = "SampleLoop"
  /\ sample < sample_size
  /\ \E strips \in GeneratedStrips(cave.size, accessibility) :
        /\ cave' = [cave EXCEPT !.map = cave.map \o strips]
        /\ generated' = strips
  /\ pc' = "Traverse"
  /\ UNCHANGED <<exec_mode, sample_size, accessibility, successful_attempts,
                 regions_to_scout, entry, sample, sweeping, console, events,
                 attempts_before, points, reads>>

\* After the loop of case B: print the rate and return from Run; in the
\* sweep the caller's loop then does accessibility += 0.01.
Report ==
  /\ pc = "SampleLoop"
  /\ ~(sample < sample_size)
  /\ console' = [console EXCEPT !.rate = <<accessibility, successful_attempts, sample_size>>]
  /\ IF sweeping
     THEN /\ accessibility' = DblAdd(accessibility, DblStep)
          /\ pc' = "SweepLoop"
     ELSE /\ pc' = "Done"
          /\ UNCHANGED accessibility
  /\ UNCHANGED <<exec_mode, sample_size, cave, successful_attempts, regions_to_scout,
                 entry, sample, sweeping, events, attempts_before, generated, points, reads>>

\* AttemptCaveTraverse is entered: the stack is empty.
TraverseEnter ==
  /\ pc = "Traverse"
  /\ regions_to_scout' = <<>>
  /\ entry' = 1
  /\ events' = <<>>
  /\ reads' = {}
  /\ attempts_before' = successful_attempts
  /\ pc' = "Entries"
  /\ UNCHANGED <<exec_mode, sample_size, accessibility, cave, successful_attempts,
                 sample, sweeping, console, generated, points>>

\* One iteration of "for(auto region : cave[ENTRY]) ScoutRegion(region);"
FindEntry ==
  /\ pc = "Entries"
  /\ entry <= Len(cave.map[ENTRY + 1])
  /\ LET st == ScoutEntry(State, entry - 1)
     IN  /\ regions_to_scout' = st.stack
         /\ events' = st.events
         /\ reads' = st.reads
         /\ cave' = [cave EXCEPT !.map = st.map]
  /\ entry' = entry + 1
  /\ UNCHANGED <<exec_mode, sample_size, accessibility, successful_attempts, sample,
                 sweeping, pc, console, attempts_before, generated, points>>

\* The range-for is over.
EntriesFound ==
  /\ pc = "Entries"
  /\ entry > Len(cave.map[ENTRY + 1])
  /\ pc' = "Explore"
  /\ UNCHANGED <<exec_mode, sample_size, accessibility, cave, successful_attempts,
                 regions_to_scout, entry, sample, sweeping, console, events,
                 attempts_before, generated, points, reads>>

\* One iteration of "while(!regions_to_scout.empty())".
Explore ==
  /\ pc = "Explore"
  /\ regions_to_scout # <<>>
  /\ LET step == ExploreStep(State, successful_attempts, exec_mode, cave.size)
     IN  /\ successful_attempts' = step.attempts
         /\ pc' = IF step.stop THEN "Return" ELSE pc
         /\ cave' = [cave EXCEPT !.map = step.st.map]
         /\ regions_to_scout' = step.st.stack
         /\ events' = step.st.events
         /\ reads' = step.st.reads
  /\ UNCHANGED <<exec_mode, sample_size, accessibility, entry, sample, sweeping,
                 console, attempts_before, generated, points>>

\* The while loop ends with the stack empty.
Explored ==
  /\ pc = "Explore"
  /\ regions_to_scout = <<>>
  /\ pc' = "Return"
  /\ UNCHANGED <<exec_mode, sample_size, accessibility, cave, successful_attempts,
                 regions_to_scout, entry, sample, sweeping, console, events,
                 attempts_before, generated, points, reads>>

\* AttemptCaveTraverse returns to Run: case A prints the exit message and
\* the paths and Run is over; case B calls ResetMap and counts the sample.
ShowPaths ==
  /\ pc = "Return"
  /\ exec_mode = "A"
  /\ console' = [console EXCEPT
                   !.exit  = IF successful_attempts > 0 THEN "Exit found" ELSE "Exit NOT found",
                   !.paths = DisplayPaths(cave.map)]
  /\ regions_to_scout' = <<>>
  /\ pc' = "Done"
  /\ UNCHANGED <<exec_mode, sample_size, accessibility, cave, successful_attempts,
                 entry, sample, sweeping, events, attempts_before, generated, points, reads>>

NextSample ==
  /\ pc = "Return"
  /\ exec_mode # "A"
  /\ cave' = [cave EXCEPT !.map = ResetMap(cave.map)]
  /\ sample' = sample + 1
  /\ regions_to_scout' = <<>>
  /\ pc' = "SampleLoop"
  /\ UNCHANGED <<exec_mode, sample_size, accessibility, successful_attempts, entry,
                 sweeping, console, events, attempts_before, generated, points, reads>>

Next ==
  \/ RunEnter
  \/ SweepLoop
  \/ GenerateMap
  \/ Report
  \/ TraverseEnter
  \/ FindEntry
  \/ EntriesFound
  \/ Explore
  \/ Explored
  \/ ShowPaths
  \/ NextSample

Spec == Init /\ [][Next]_vars

\* ------------------------------------------------------------------------
\* What the properties are stated with
\* ------------------------------------------------------------------------

\* The cells of the cave, as <<y, x>>, and the Region at a cell.
Cells == (0..(cave.size - 1)) \X (0..(cave.size - 1))

At(c) == cave.map[c[1] + 1][c[2] + 1]

OpenCells == { c \in Cells : ~At(c).obstructed }

\* North, east, west or south of each other: no diagonals.
Adjacent(c, d) ==
  \/ c[2] = d[2] /\ (c[1] = d[1] + 1 \/ d[1] = c[1] + 1)
  \/ c[1] = d[1] /\ (c[2] = d[2] + 1 \/ d[2] = c[2] + 1)

\* The open cells joined to a cell of seen by a sequence of adjacent open cells.
RECURSIVE Connected(_)
Connected(seen) ==
  LET more == { c \in OpenCells \ seen : \E d \in seen : Adjacent(c, d) }
  IN  IF more = {} THEN seen ELSE Connected(seen \cup more)

\* The open cells joined to an open cell of row 0.
FromTop == Connected({ c \in OpenCells : c[1] = 0 })

\* There is a sequence of adjacent open cells from row 0 to row N-1.
Crossing == \E c \in FromTop : c[1] = cave.size - 1

\* No column is open from top to bottom: a crossing has to turn.
NoStraightCrossing ==
  \A x \in 0..(cave.size - 1) : \E y \in 0..(cave.size - 1) : At(<<y, x>>).obstructed

TopRowBlocked == \A c \in Cells : c[1] = 0 => At(c).obstructed

Pushes(c) == { i \in DOMAIN events : events[i] = [op |-> "push", y |-> c[1], x |-> c[2]] }

InTraverse == pc \in {"Entries", "Explore", "Return"}

C2_NoCellPushedTwice ==
  InTraverse => \A c \in Cells : Cardinality(Pushes(c)) <= 1

\* ------------------------------------------------------------------------
\* C3: after the traversal of mode A a cell is discovered (printed 0)
\* exactly when it is open and joined by adjacent open cells to an open
\* cell of row 0; every other cell is printed 1.
\* ------------------------------------------------------------------------
C3_DiscoveredIffConnectedToTop ==
  (pc = "Done" /\ exec_mode = "A") =>
     \A c \in Cells :
        /\ At(c).discovered <=> c \in FromTop
        /\ console.paths[c[1] + 1][c[2] + 1] = IF c \in FromTop THEN 0 ELSE 1

\* ------------------------------------------------------------------------
\* C4: the traversal of mode A on a cave with no obstructed cell, of any
\* size N >= 1, reports "Exit found" and leaves every cell discovered.
\* ------------------------------------------------------------------------
C4_OpenCaveFullyDiscovered ==
  (pc = "Done" /\ exec_mode = "A" /\ OpenCells = Cells) =>
     /\ console.exit = "Exit found"
     /\ \A c \in Cells : At(c).discovered

\* ------------------------------------------------------------------------
\* C5: with row 0 entirely obstructed the traversal pushes nothing, records
\* no success and leaves every cell undiscovered; mode A prints
\* "Exit NOT found" and 1 for every cell.
\* ------------------------------------------------------------------------
C5_BlockedTopRowFindsNothing ==
  /\ (InTraverse /\ TopRowBlocked) =>
        /\ events = <<>>
        /\ regions_to_scout = <<>>
        /\ successful_attempts = attempts_before
        /\ \A c \in Cells : ~At(c).discovered
  /\ (pc = "Done" /\ exec_mode = "A" /\ TopRowBlocked) =>
        /\ console.exit = "Exit NOT found"
        /\ \A c \in Cells : console.paths[c[1] + 1][c[2] + 1] = 1

\* A traversal that ended on a cave with a blocked top row and open cells below.
C5_Witness ==
  /\ pc = "Return"
  /\ cave.size >= 2
  /\ TopRowBlocked
  /\ \E c \in OpenCells : c[1] = cave.size - 1

\* ------------------------------------------------------------------------
\* C6: in the sample loop each traversal adds exactly 1 to
\* successful_attempts when its map has a crossing and 0 otherwise, so the
\* counter is between 0 and the number of samples traversed and the printed
\* rate successful_attempts / sample_size is in [0, 1].
\* ------------------------------------------------------------------------
C6_OneSuccessPerSample ==
  /\ (pc = "Return" /\ exec_mode = "B") =>
        /\ successful_attempts = attempts_before + (IF Crossing THEN 1 ELSE 0)
        /\ successful_attempts \in 0..(sample + 1)
  /\ (pc \in {"SampleLoop", "Traverse", "Entries", "Explore"} /\ exec_mode = "B") =>
        successful_attempts \in 0..sample
  /\ console.rate # <<>> =>
        /\ console.rate[3] >= 1
        /\ console.rate[2] \in 0..console.rate[3]

\* The second sample stops at its exit with regions left on the stack, after
\* a first sample that succeeded too.
C6_Witness ==
  /\ pc = "Return"
  /\ exec_mode = "B"
  /\ sample = 1
  /\ successful_attempts = 2
  /\ Len(regions_to_scout) >= 2

\* ------------------------------------------------------------------------
\* C7: when a sample's traversal starts, cave.map is exactly the N rows of
\* N undiscovered Regions its own GenerateMap call built, and it stays N
\* rows with the generated obstruction flags for the whole traversal: the
\* traversal reads nothing of an earlier sample.
\* ------------------------------------------------------------------------
C7_SampleStartsFromItsOwnMap ==
  /\ (pc = "Traverse" /\ exec_mode = "B") =>
        /\ cave.map = generated
        /\ Len(cave.map) = cave.size
        /\ \A y1 \in 1..cave.size : Len(cave.map[y1]) = cave.size
        /\ \A c \in Cells : At(c) = Region(c[1], c[2], At(c).obstructed)
  /\ (InTraverse /\ exec_mode = "B") =>
        /\ Len(cave.map) = cave.size
        /\ \A c \in Cells : At(c).obstructed = generated[c[1] + 1][c[2] + 1].obstructed

\* The second sample of a run is about to be traversed, after a first
\* sample whose traversal pushed regions and recorded a success.
C7_Witness ==
  /\ pc = "Traverse"
  /\ exec_mode = "B"
  /\ sample = 1
  /\ events # <<>>
  /\ successful_attempts = 1
  /\ cave.size = 2

\* ------------------------------------------------------------------------
\* C8: at accessibility 1.0 every sample records a success, so the run
\* ends with successful_attempts = sample_size: a rate of exactly 1.
\* ------------------------------------------------------------------------
C8_FullAccessibilityAlwaysCrosses ==
  /\ (exec_mode = "B" /\ accessibility = DblOne /\ pc = "Return") =>
        successful_attempts = sample + 1
  /\ (exec_mode = "B" /\ accessibility = DblOne /\ pc = "SampleLoop") =>
        successful_attempts = sample
  /\ (console.rate # <<>> /\ console.rate[1] = DblOne) =>
        console.rate[2] = console.rate[3]

\* A run of two samples of a 2 x 2 cave at accessibility 1.0 printed 2 / 2.
C8_Witness ==
  /\ pc = "Done"
  /\ cave.size = 2
  /\ console.rate = <<DblOne, 2, 2>>

\* ------------------------------------------------------------------------
\* C9: at accessibility 0.0 every generated Region is obstructed and no
\* sample records a success, so the run ends with successful_attempts = 0: a
\* rate of exactly 0 (for every N, N >= 2 included).
\* ------------------------------------------------------------------------
C9_NoAccessibilityNeverCrosses ==
  /\ (exec_mode = "B" /\ accessibility = DblZero /\ pc # "Run" /\ pc # "Done") =>
        successful_attempts = 0
  /\ (exec_mode = "B" /\ accessibility = DblZero /\ InTraverse) =>
        OpenCells = {}
  /\ (console.rate # <<>> /\ console.rate[1] = DblZero) =>
        console.rate[2] = 0

\* A run of two samples of a 2 x 2 cave at accessibility 0.0 printed 0 / 2.
C9_Witness ==
  /\ pc = "Done"
  /\ cave.size = 2
  /\ ~sweeping
  /\ console.rate = <<DblZero, 0, 2>>

\* ------------------------------------------------------------------------
\* C10: the loop of case C calls Run once for each of 0.00, 0.01, ..., 1.00:
\* 101 calls, the first at 0.0 and the last at 1.0, and then ends.
\* ------------------------------------------------------------------------
C10_SweepCallsRunAt101Points ==
  (pc = "Done" /\ points.calls > 0) =>
     /\ points.calls = 101
     /\ points.first = DblZero
     /\ points.last = DblOne

\* ------------------------------------------------------------------------
\* C11: in the sweep the counter is private to each point: it is 0 when the
\* first sample of a point starts, and never above the number of samples
\* this point has traversed, whatever the points before it counted.
\* ------------------------------------------------------------------------
C11_CounterPrivateToPoint ==
  /\ (sweeping /\ pc \in {"SampleLoop", "Traverse"} /\ sample = 0) =>
        successful_attempts = 0
  /\ (sweeping /\ pc \in {"SampleLoop", "Traverse", "Entries", "Explore"}) =>
        successful_attempts <= sample
  /\ (sweeping /\ pc = "Return") => successful_attempts <= sample + 1

\* The first sample of a later point starts after a point that counted a success.
C11_Witness ==
  /\ sweeping
  /\ pc = "Traverse"
  /\ sample = 0
  /\ points.calls >= 2
  /\ console.rate # <<>>
  /\ console.rate[2] >= 1
  /\ successful_attempts = 0

\* ------------------------------------------------------------------------
\* C12: outside mode A, with a cell of row N-1 on top of the stack the
\* traversal counts the success and stops: it pops, pushes and marks
\* nothing more for that sample, whatever is left on the stack.  In mode A
\* every iteration pops, also after an exit was found, and the traversal
\* ends only with the stack empty.
\* ------------------------------------------------------------------------
ExitOnTop == regions_to_scout # <<>> /\ Top(regions_to_scout).y + 1 = cave.size

ExitPops == { i \in DOMAIN events : events[i].op = "pop" /\ events[i].y + 1 = cave.size }

C12_AtTheStop ==
  /\ (pc = "Return" /\ exec_mode = "A") => regions_to_scout = <<>>
  /\ (pc = "Return" /\ exec_mode # "A" /\ regions_to_scout # <<>>) => ExitOnTop
  /\ (InTraverse /\ exec_mode # "A") => ExitPops = {}

C12_Steps ==
  /\ (pc = "Explore" /\ exec_mode # "A" /\ ExitOnTop) =>
        /\ pc' = "Return"
        /\ successful_attempts' = successful_attempts + 1
        /\ UNCHANGED <<regions_to_scout, events, cave>>
  /\ (pc = "Return" /\ exec_mode # "A") =>
        /\ UNCHANGED <<events, successful_attempts>>
        /\ cave' = cave \/ cave'.map = <<>>
  /\ (pc = "Explore" /\ exec_mode = "A" /\ regions_to_scout # <<>>) =>
        /\ pc' = "Explore"
        /\ Len(events') > Len(events)
        /\ events'[Len(events) + 1] = Event("pop", Top(regions_to_scout))
        /\ SubSeq(events', 1, Len(events)) = events

C12_EarlyExitVersusExhaustive == []C12_AtTheStop /\ [][C12_Steps]_vars

\* The traversal of mode A goes on with regions left to scout after it
\* has found an exit.
C12_Witness ==
  /\ pc = "Explore"
  /\ exec_mode = "A"
  /\ successful_attempts >= 1
  /\ ExitPops # {}
  /\ Len(regions_to_scout) >= 2

\* ------------------------------------------------------------------------
\* C13: the neighbours of a popped cell that are in bounds, non-obstructed
\* and not yet discovered are pushed in the order North, East, West, South;
\* of the neighbours pushed from the same popped cell, the South one is
\* popped before the West one, the West one before the East one and the
\* East one before the North one.
\* ------------------------------------------------------------------------

\* The neighbours of <<y, x>> in the order North, East, West, South.
Around(y, x) == << <<y - 1, x>>, <<y, x + 1>>, <<y, x - 1>>, <<y + 1, x>> >>

\* 1, 2, 3, 4 for the North, East, West, South neighbour of <<y, x>>; 0 otherwise.
Direction(y, x, c) ==
  IF \E d \in 1..4 : Around(y, x)[d] = c
  THEN CHOOSE d \in 1..4 : Around(y, x)[d] = c
  ELSE 0

Eligible(c) == c \in Cells /\ ~At(c).obstructed /\ ~At(c).discovered

PushOf(c) == [op |-> "push", y |-> c[1], x |-> c[2]]

\* What one popping iteration is to add to the log, from the state before it.
ExpectedEvents(region) ==
  LET pushes == SelectSeq(Around(region.y, region.x), Eligible)
  IN  <<Event("pop", region)>> \o [i \in 1..Len(pushes) |-> PushOf(pushes[i])]

\* The log replayed on a stack of push positions: open is what is left on
\* the stack, popped[i] the position of the pop that took push i (0: none).
RECURSIVE Replay(_, _, _)
Replay(i, open, popped) ==
  IF i > Len(events) THEN [open |-> open, popped |-> popped]
  ELSE IF events[i].op = "push" THEN Replay(i + 1, Append(open, i), popped)
  ELSE Replay(i + 1, SubSeq(open, 1, Len(open) - 1),
              [popped EXCEPT ![open[Len(open)]] = i])

Replayed == Replay(1, <<>>, [i \in DOMAIN events |-> 0])

\* The pushes made by the iteration that logged the pop at position p.
Children(p) ==
  { c \in (p + 1)..(p + 4) :
      c \in DOMAIN events /\ \A k \in (p + 1)..c : events[k].op = "push" }

C13_PopOrder ==
  pc = "Return" =>
    LET r == Replayed
    IN  /\ Len(r.open) = Len(regions_to_scout)
        /\ \A k \in 1..Len(r.open) :
              Event("push", regions_to_scout[k]) = events[r.open[k]]
        /\ \A i \in DOMAIN events :
              r.popped[i] # 0 => Event("pop", events[i]) = events[r.popped[i]]
        /\ \A p \in DOMAIN events : events[p].op = "pop" =>
              \A i, j \in Children(p) :
                 LET di == Direction(events[p].y, events[p].x, <<events[i].y, events[i].x>>)
                     dj == Direction(events[p].y, events[p].x, <<events[j].y, events[j].x>>)
                 IN  /\ di # 0
                     /\ di < dj <=> i < j
                     /\ (di < dj /\ r.popped[i] # 0) =>
                           (r.popped[j] # 0 /\ r.popped[j] < r.popped[i])

C13_PushOrder ==
  (pc = "Explore" /\ regions_to_scout # <<>> /\ events' # events) =>
     events' = events \o ExpectedEvents(Top(regions_to_scout))

C13_NorthEastWestSouth == []C13_PopOrder /\ [][C13_PushOrder]_vars

\* A traversal is over in which one popped cell pushed three neighbours
\* and all three were popped.
C13_Witness ==
  /\ pc = "Return"
  /\ \E p \in DOMAIN events :
        /\ events[p].op = "pop"
        /\ Cardinality(Children(p)) >= 3
        /\ \A c \in Children(p) : Replayed.popped[c] # 0

\* ------------------------------------------------------------------------
\* C14: AttemptCaveTraverse terminates on every cave in every mode: until
\* it returns it always has a step, and every step advances a bounded
\* measure, so it returns after finitely many steps.  It
\* ends with the stack empty or, outside mode A, at the first row N-1 cell
\* found on top; when it ends with the stack empty, every non-obstructed
\* cell adjacent to an explored (popped) cell has been explored too.
\* ------------------------------------------------------------------------
Popped == { <<events[i].y, events[i].x>> : i \in { k \in DOMAIN events : events[k].op = "pop" } }

\* The measure of the two loops: the entry loop counts up to the length of
\* row 0, and every cell is pushed at most twice, so the log of one
\* traversal never holds more than 4 * N * N pushes and pops.
C14_Measure ==
  /\ InTraverse => Len(events) <= 4 * cave.size * cave.size
  /\ pc = "Entries" => entry \in 1..(cave.size + 1)

\* Until it returns the traversal always has a step to take: the entry
\* loop iterates or ends, and the while loop, whose body has no other guard
\* than the non-empty stack, iterates or ends ...
C14_NeverStuck ==
  /\ pc \in {"Traverse", "Entries"} => ENABLED (TraverseEnter \/ FindEntry \/ EntriesFound)
  /\ pc = "Explore" =>
        \/ ENABLED Explored
        \/ regions_to_scout # <<>> /\ <<Top(regions_to_scout).y, Top(regions_to_scout).x>> \in Cells

\* ... and every step moves on: to the next loop, to the return, or along
\* the measure.
C14_Progress ==
  /\ pc = "Traverse" => pc' = "Entries"
  /\ pc = "Entries" =>
        \/ pc' = "Entries" /\ entry' = entry + 1
        \/ pc' = "Explore"
  /\ pc = "Explore" =>
        \/ pc' = "Explore" /\ Len(events') > Len(events)
        \/ pc' = "Return"

C14_AtTheEnd ==
  pc = "Return" =>
     /\ \/ regions_to_scout = <<>>
        \/ exec_mode # "A" /\ ExitOnTop /\ ExitPops = {}
     /\ regions_to_scout = <<>> =>
           \A c \in Popped : \A d \in OpenCells : Adjacent(c, d) => d \in Popped

C14_TraverseTerminates ==
  /\ []C14_Measure
  /\ []C14_NeverStuck
  /\ [][C14_Progress]_vars
  /\ []C14_AtTheEnd

\* A traversal of a 3 x 3 cave ended with the stack empty, with explored
\* cells and with open cells it could not reach.
C14_Witness ==
  /\ pc = "Return"
  /\ cave.size = 3
  /\ regions_to_scout = <<>>
  /\ Cardinality(Popped) >= 4
  /\ OpenCells \ Popped # {}

\* ------------------------------------------------------------------------
\* C15: every cave[y][x] the traversal reads or marks has y and x in
\* 0..N-1, and so has every region on the stack; for N = 1 no neighbour of
\* the single cell is accessed.
\* ------------------------------------------------------------------------
C15_AccessesInBounds ==
  InTraverse =>
     /\ reads \subseteq Cells
     /\ \A k \in DOMAIN regions_to_scout :
           <<regions_to_scout[k].y, regions_to_scout[k].x>> \in Cells
     /\ cave.size = 1 => reads \subseteq {<<0, 0>>}

\* The single open cell of a 1 x 1 cave was popped, its four guards were
\* evaluated, and the traversal is over.
C15_Witness ==
  /\ pc = "Return"
  /\ exec_mode = "A"
  /\ cave.size = 1
  /\ Popped = {<<0, 0>>}
  /\ reads = {<<0, 0>>}

\* ------------------------------------------------------------------------
\* C16: no step of a traversal changes a cell's obstructed flag or its
\* coordinates, a discovered flag only goes from false to true, and no
\* obstructed cell is ever marked discovered or pushed.
\* ------------------------------------------------------------------------
C16_CellsKept ==
  pc \in {"Traverse", "Entries", "Explore"} =>
     /\ Len(cave'.map) = Len(cave.map)
     /\ \A c \in Cells :
           LET before == At(c)
               after  == cave'.map[c[1] + 1][c[2] + 1]
           IN  /\ after.obstructed = before.obstructed
               /\ after.y = before.y /\ after.x = before.x
               /\ before.discovered => after.discovered

C16_ObstructedUntouched ==
  InTraverse =>
     /\ \A c \in Cells :
           /\ At(c).y = c[1] /\ At(c).x = c[2]
           /\ At(c).obstructed => (~At(c).discovered /\ Pushes(c) = {})
     /\ \A k \in DOMAIN regions_to_scout :
           /\ ~regions_to_scout[k].obstructed
           /\ ~At(<<regions_to_scout[k].y, regions_to_scout[k].x>>).obstructed

C16_CellStateInvariant == []C16_ObstructedUntouched /\ [][C16_CellsKept]_vars

\* A traversal is over that marked a cell and scouted an obstructed one.
C16_Witness ==
  /\ pc = "Return"
  /\ \E c \in Cells : At(c).discovered
  /\ \E d \in reads : At(d).obstructed /\ ~At(d).discovered

\* ------------------------------------------------------------------------
\* C17: on the same map the traversal of modes B and C records a success
\* exactly when the traversal of mode A does, and the pushes and pops it
\* has made when it stops are a prefix of those of the traversal of mode A.
\* ------------------------------------------------------------------------

\* The map of the current traversal as it was when the traversal began.
Undiscovered ==
  [y1 \in 1..cave.size |-> [x1 \in 1..cave.size |->
      Region(y1 - 1, x1 - 1, cave.map[y1][x1].obstructed)]]

\* The traversal of mode A run on that map.
Exhaustive == AttemptCaveTraverse(Undiscovered, 0, "A", cave.size)

IsPrefix(s, t) == Len(s) <= Len(t) /\ SubSeq(t, 1, Len(s)) = s

C17_EarlyExitIsPrefixOfExhaustive ==
  /\ (pc = "Return" /\ exec_mode # "A") =>
        /\ (successful_attempts > attempts_before) <=> (Exhaustive.attempts > 0)
        /\ IsPrefix(events, Exhaustive.st.events)
  /\ (pc = "Return" /\ exec_mode = "A") =>
        /\ successful_attempts = Exhaustive.attempts
        /\ events = Exhaustive.st.events

\* A traversal of mode B stopped at its exit where the traversal of mode A
\* goes on pushing and popping.
C17_Witness ==
  /\ pc = "Return"
  /\ exec_mode = "B"
  /\ cave.size = 2
  /\ successful_attempts > attempts_before
  /\ Len(events) + 2 <= Len(Exhaustive.st.events)

=============================================================================
